---- MODULE Spec2Model ----
\* Conway's Steinway: the Game of Life board of src/python/life.py, whose
\* bottom row is harvested as piano keys while the board scrolls down.
\*
\* A Life object is the record [width, height, board, generation].  A Python
\* list is a function on 0..n-1, so rows and columns keep the indices of the
\* source.  A method is an operator from the object (and its arguments) to
\* the record [self, ret, exc]: the object after the call, the value returned
\* and the exception raised ("none" when the call returns).
EXTENDS Integers, Sequences, FiniteSets, TLC

\* ---------------------------------------------------------------- constants
BOARD_WIDTH == 88
BOARD_HEIGHT == 40
DEAD == 0
ALIVE == 1
NoException == "none"
None == "None"
\* "return self": the object itself is the record the operator gives back
SelfRef == "self"

\* ------------------------------------------------------------------- bounds
MaxHeight == 3
MaxGen == 3
MaxCalls == 2
MaxAnyCalls == 2
MaxPresetCalls == 3
MaxRandomCalls == 2
MaxSnapshotCalls == 3
MaxPianoCalls == 3

\* ------------------------------------------------------------- Python lists
\* [v] * n : the empty list when n <= 0
PyList(n, v) == [i \in 0..(n - 1) |-> v] @@ <<>>

PyLen(l) == Cardinality(DOMAIN l)

\* a list holds values: the items of a list built by a comprehension are
\* computed when the list is built
PyListOf(f) == f @@ <<>>

\* the item of a one-item set.  A statement "v = e" computes e once, and
\* what follows reads the value v holds: The({ ... v ... : v \in {e} })
The(S) == CHOOSE v \in S : TRUE

\* l[i] raises IndexError outside -len..len-1; a negative index counts from
\* the end of the list
CanIndex(l, i) == IF i >= 0 THEN i \in DOMAIN l ELSE (PyLen(l) + i) \in DOMAIN l

PyIndex(l, i) == IF i >= 0 THEN l[i] ELSE l[PyLen(l) + i]

PyPos(l, i) == IF i >= 0 THEN i ELSE PyLen(l) + i

Returns(self, v) == [self |-> self, ret |-> v, exc |-> NoException]

Raises(self, e) == [self |-> self, ret |-> None, exc |-> e]

\* ---------------------------------------------------------------------- Row
\* Row.set_cell: a write outside the row is dropped
Row_set_cell(cells, index, value) ==
    IF 0 <= index /\ index < PyLen(cells)
    THEN [cells EXCEPT ![index] = value]
    ELSE cells

\* self.board[row].set_cell(col, value), for a row the board has
BoardRowSet(board, row, col, value) ==
    [board EXCEPT ![PyPos(board, row)] =
        Row_set_cell(board[PyPos(board, row)], col, value)]

\* --------------------------------------------------------------------- Life
\* Life.__init__: the width attribute is BOARD_WIDTH, the rows are built
\* from the width argument
Life_init(width, height) ==
    [width |-> BOARD_WIDTH,
     height |-> height,
     board |-> PyList(height, PyList(width, DEAD)),
     generation |-> 0]

is_cell_alive(self, row, col) ==
    IF 0 <= row /\ row < self.height /\ 0 <= col /\ col < self.width
    THEN IF CanIndex(self.board, row) /\ CanIndex(PyIndex(self.board, row), col)
         THEN Returns(self, PyIndex(PyIndex(self.board, row), col) = ALIVE)
         ELSE Raises(self, "IndexError")
    ELSE Returns(self, FALSE)

\* set_cell without its range check, as C9 tells it from set_cell: a negative
\* row counts from the end of the list, a row past the end raises
set_cell_unchecked(self, row, col, value) ==
    IF CanIndex(self.board, row)
    THEN Returns([self EXCEPT !.board = BoardRowSet(self.board, row, col, value)], None)
    ELSE Raises(self, "IndexError")

set_cell(self, row, col, value) ==
    IF 0 <= row /\ row < self.height /\ 0 <= col /\ col < self.width
    THEN IF CanIndex(self.board, row)
         THEN Returns([self EXCEPT !.board = BoardRowSet(self.board, row, col, value)], None)
         ELSE Raises(self, "IndexError")
    ELSE Returns(self, None)

get_cell(self, row, col) ==
    IF 0 <= row /\ row < self.height /\ 0 <= col /\ col < self.width
    THEN IF CanIndex(self.board, row) /\ CanIndex(PyIndex(self.board, row), col)
         THEN Returns(self, PyIndex(PyIndex(self.board, row), col))
         ELSE Raises(self, "IndexError")
    ELSE Returns(self, DEAD)

\* A loop whose turns each write a cell of their own, from values no turn
\* of the loop writes, is the function that maps each cell to what its turn
\* writes; the loop raises when one of its turns does.  A loop whose turns
\* feed each other is a recursive operator over the two halves of its range,
\* in order.

\* the steps (dr, dc) of the loops over [-1, 0, 1], the cell itself skipped
NeighborSteps == { d \in {0 - 1, 0, 1} \X {0 - 1, 0, 1} : ~(d[1] = 0 /\ d[2] = 0) }

\* the neighbours that pass the boundary check, whose state is read
NeighborsRead(self, row, col) ==
    { n \in { <<row + d[1], col + d[2]>> : d \in NeighborSteps } :
        0 <= n[1] /\ n[1] < self.height /\ 0 <= n[2] /\ n[2] < self.width }

\* the count with the boundary test "nr < self.height and nc < self.width",
\* as C17 tells it from the count of the source: an index of -1 reads the
\* last row or the last cell of the row
count_live_neighbors_negative_index(self, row, col) ==
    Returns(self,
            Cardinality({ d \in NeighborSteps :
                            /\ row + d[1] < self.height
                            /\ col + d[2] < self.width
                            /\ CanIndex(self.board, row + d[1])
                            /\ CanIndex(PyIndex(self.board, row + d[1]), col + d[2])
                            /\ PyIndex(PyIndex(self.board, row + d[1]), col + d[2]) = ALIVE }))

\* the count on a board whose edges are glued (the neighbour positions taken
\* modulo the height and the width), as C11 tells it from the count of the
\* source
count_live_neighbors_wrapping(self, row, col) ==
    Returns(self,
            Cardinality({ d \in NeighborSteps :
                            /\ self.height > 0
                            /\ self.board[(row + d[1]) % self.height]
                                          [(col + d[2]) % self.width] = ALIVE }))

count_live_neighbors(self, row, col) ==
    IF \E n \in NeighborsRead(self, row, col) :
           is_cell_alive(self, n[1], n[2]).exc # NoException
    THEN Raises(self, "IndexError")
    ELSE Returns(self, Cardinality({ n \in NeighborsRead(self, row, col) :
                                       is_cell_alive(self, n[1], n[2]).ret }))

\* the rule with overcrowding starting at five neighbours, as C3 tells it
\* from the rule of the source
NextGenCellOvercrowdedAtFive(self, row_idx, col_idx) ==
    LET live_neighbors == count_live_neighbors(self, row_idx, col_idx).ret
    IN  IF is_cell_alive(self, row_idx, col_idx).ret
        THEN IF live_neighbors < 2 \/ live_neighbors > 4
             THEN DEAD
             ELSE self.board[row_idx][col_idx]
        ELSE IF live_neighbors = 3
             THEN ALIVE
             ELSE self.board[row_idx][col_idx]

\* the rule with overcrowding starting at three neighbours, as C16 tells it
\* from the rule of the source
NextGenCellOvercrowdedAtThree(self, row_idx, col_idx) ==
    LET live_neighbors == count_live_neighbors(self, row_idx, col_idx).ret
    IN  IF is_cell_alive(self, row_idx, col_idx).ret
        THEN IF live_neighbors < 2 \/ live_neighbors >= 3
             THEN DEAD
             ELSE self.board[row_idx][col_idx]
        ELSE IF live_neighbors = 3
             THEN ALIVE
             ELSE self.board[row_idx][col_idx]

\* Conway's rule for one cell: what new_board holds at (row_idx, col_idx)
\* after its turn; the neighbours and the cell are read from self.board, and
\* new_board started as a copy of it
NextGenCell(self, row_idx, col_idx) ==
    LET live_neighbors == count_live_neighbors(self, row_idx, col_idx).ret
    IN  IF is_cell_alive(self, row_idx, col_idx).ret
        THEN IF live_neighbors < 2 \/ live_neighbors > 3
             THEN DEAD
             ELSE self.board[row_idx][col_idx]
        ELSE IF live_neighbors = 3
             THEN ALIVE
             ELSE self.board[row_idx][col_idx]

\* a turn of the loops over range(self.height) and range(self.width) raises
NextGenRaises(self) ==
    \E row_idx \in 0..(self.height - 1), col_idx \in 0..(self.width - 1) :
        \/ count_live_neighbors(self, row_idx, col_idx).exc # NoException
        \/ is_cell_alive(self, row_idx, col_idx).exc # NoException

\* next_generation without the copy (new_board = self.board), as C15 tells
\* it from next_generation: each turn writes the board the later turns read
NextGenInPlaceCell(self, row_idx, col_idx) ==
    [self EXCEPT !.board[row_idx][col_idx] = NextGenCell(self, row_idx, col_idx)]

RECURSIVE NextGenInPlaceCols(_, _, _, _)
NextGenInPlaceCols(self, row_idx, lo, hi) ==
    IF hi <= lo \/ self.width <= 0 THEN self
    ELSE IF hi = lo + 1 THEN NextGenInPlaceCell(self, row_idx, lo)
    ELSE LET first == NextGenInPlaceCols(self, row_idx, lo, (lo + hi) \div 2)
         IN  NextGenInPlaceCols(first, row_idx, (lo + hi) \div 2, hi)

RECURSIVE NextGenInPlaceRows(_, _, _)
NextGenInPlaceRows(self, lo, hi) ==
    IF hi <= lo \/ self.height <= 0 THEN self
    ELSE IF hi = lo + 1 THEN NextGenInPlaceCols(self, lo, 0, self.width)
    ELSE LET first == NextGenInPlaceRows(self, lo, (lo + hi) \div 2)
         IN  NextGenInPlaceRows(first, (lo + hi) \div 2, hi)

next_generation_in_place(self) ==
    IF NextGenRaises(self) THEN Raises(self, "IndexError")
    ELSE Returns([NextGenInPlaceRows(self, 0, self.height) EXCEPT
                    !.generation = self.generation + 1],
                 None)

\* next_generation without the last line of the source, as C5 tells it from
\* next_generation: the board is replaced and the counter left alone
next_generation_uncounted(self) ==
    IF NextGenRaises(self) THEN Raises(self, "IndexError")
    ELSE Returns(
           [self EXCEPT
              !.board = PyListOf([r \in DOMAIN self.board |->
                           PyListOf([c \in DOMAIN self.board[r] |->
                              IF r < self.height /\ c < self.width
                              THEN NextGenCell(self, r, c)
                              ELSE self.board[r][c]])])],
           None)

\* new_board = copy.deepcopy(self.board), the two loops, then the assignment
\* of the board and of the counter: a raise inside the loops leaves the
\* object as it was
next_generation(self) ==
    IF NextGenRaises(self) THEN Raises(self, "IndexError")
    ELSE Returns(
           [self EXCEPT
              !.board = PyListOf([r \in DOMAIN self.board |->
                           PyListOf([c \in DOMAIN self.board[r] |->
                              IF r < self.height /\ c < self.width
                              THEN NextGenCell(self, r, c)
                              ELSE self.board[r][c]])]),
              !.generation = self.generation + 1],
           None)

\* ------------------------------------------------- deterministic row source
\* A generator state is a tuple of 16-bit limbs, least significant first, so
\* that no product leaves the range of the checker's integers.
LimbBase == 65536
LcgA == 1664525
LcgC == 1013904223

\* struct.unpack('Q', md5(str(generation)).digest()[:8]) on a little-endian
\* build, tabulated for the generations the model reaches
md5_seed(generation) ==
    CASE generation = 0 -> <<52687, 33824, 54677, 61285>>
      [] generation = 1 -> <<51908, 14402, 47520, 33315>>
      [] generation = 2 -> <<7880, 36210, 19613, 25391>>
      [] generation = 3 -> <<52204, 32456, 23627, 65250>>
      [] generation = 4 -> <<32680, 31222, 62370, 7655>>
      [] generation = 5 -> <<56036, 32571, 52923, 17699>>
      [] generation = 6 -> <<30998, 7177, 34906, 44815>>
      [] generation = 7 -> <<5263, 24548, 60110, 31254>>
      [] generation = 8 -> <<61641, 38392, 39163, 37291>>
      [] generation = 9 -> <<50245, 52876, 11566, 48511>>

\* rng_state = (a * rng_state + c) % 2**32 : the limbs above the second do
\* not reach the result
LcgStep(rng_state) ==
    LET lo == rng_state[1]
        hi == rng_state[2]
        p0 == (LcgA % LimbBase) * lo + (LcgC % LimbBase)
        p1 == (LcgA % LimbBase) * hi + (LcgA \div LimbBase) * lo
                + (LcgC \div LimbBase) + (p0 \div LimbBase)
    IN  <<p0 % LimbBase, p1 % LimbBase>>

\* rng_state % 5 of a state below 2**32 (65536 % 5 = 1)
LcgMod5(rng_state) == (rng_state[1] + rng_state[2]) % 5

\* the states rng_state takes in n turns of the loop over the columns, the
\* first turn starting from rng_state
RECURSIVE LcgStates(_, _)
LcgStates(rng_state, n) ==
    IF n <= 0 THEN <<>>
    ELSE IF n = 1 THEN <<LcgStep(rng_state)>>
    ELSE LET first == LcgStates(rng_state, n \div 2)
         IN  first \o LcgStates(first[Len(first)], n - (n \div 2))

\* the loop with the test made before the update of rng_state, as C12 tells
\* it from the loop of the source: column col is decided by the state the
\* turn starts from, the first one by the seed (65536 % 5 = 1)
add_random_top_row_testing_first(self) ==
    LET seed == md5_seed(self.generation)
        states == LcgStates(seed, self.width)
        hit == [col \in 0..(self.width - 1) |->
                  IF col = 0
                  THEN (seed[1] + seed[2] + seed[3] + seed[4]) % 5 = 0
                  ELSE LcgMod5(states[col]) = 0] @@ <<>>
        anyHit == \E col \in DOMAIN hit : hit[col]
    IN  IF ~anyHit THEN Returns(self, None)
        ELSE IF ~CanIndex(self.board, 0) THEN Raises(self, "IndexError")
        ELSE Returns([self EXCEPT !.board[0] =
                         PyListOf([c \in DOMAIN self.board[0] |->
                            IF c < self.width /\ hit[c] THEN ALIVE
                            ELSE self.board[0][c]])],
                     None)

\* add_random_top_row seeded from md5("0") whatever the counter, as C26
\* tells it from add_random_top_row
add_random_top_row_of_counter_zero(self) ==
    LET states == LcgStates(md5_seed(0), self.width)
        hit == [col \in 0..(self.width - 1) |-> LcgMod5(states[col + 1]) = 0] @@ <<>>
        anyHit == \E col \in DOMAIN hit : hit[col]
    IN  IF ~anyHit THEN Returns(self, None)
        ELSE IF ~CanIndex(self.board, 0) THEN Raises(self, "IndexError")
        ELSE Returns([self EXCEPT !.board[0] =
                         PyListOf([c \in DOMAIN self.board[0] |->
                            IF c < self.width /\ hit[c] THEN ALIVE
                            ELSE self.board[0][c]])],
                     None)

\* self.board[0].set_cell(col, ALIVE) in the turns that find
\* rng_state % 5 == 0: the other cells of the row keep what they held
add_random_top_row(self) ==
    LET states == LcgStates(md5_seed(self.generation), self.width)
        hit == [col \in 0..(self.width - 1) |-> LcgMod5(states[col + 1]) = 0] @@ <<>>
        anyHit == \E col \in DOMAIN hit : hit[col]
    IN  IF ~anyHit THEN Returns(self, None)
        ELSE IF ~CanIndex(self.board, 0) THEN Raises(self, "IndexError")
        ELSE Returns([self EXCEPT !.board[0] =
                         PyListOf([c \in DOMAIN self.board[0] |->
                            IF c < self.width /\ hit[c] THEN ALIVE
                            ELSE self.board[0][c]])],
                     None)

\* --------------------------------------------------------- scroll and harvest
\* range(n) as a list
Range(n) == [i \in 1..n |-> i - 1]

\* the scan of the bottom row: the columns whose cell is alive, appended in
\* the order of the loop
HarvestBottomRow(self) ==
    IF \E col \in 0..(self.width - 1) :
           is_cell_alive(self, self.height - 1, col).exc # NoException
    THEN Raises(self, "IndexError")
    ELSE Returns(self,
                 SelectSeq(Range(self.width),
                           LAMBDA col : is_cell_alive(self, self.height - 1, col).ret))

\* the turn (row, col) of the shift reads self.board[row - 1].get_cells()[col]
\* and calls self.board[row].set_cell
ShiftTurnRaises(self, row, col) ==
    \/ ~CanIndex(self.board, row - 1)
    \/ ~CanIndex(PyIndex(self.board, row - 1), col)
    \/ ~CanIndex(self.board, row)

\* the shift with its rows taken from the top down (for row in
\* range(1, self.height)), as C18 tells it from the shift of the source:
\* each row takes the row above it after that row was overwritten, so every
\* row ends as the top row was
ShiftBoardDownAscending(self) ==
    IF \E t \in (1..(self.height - 1)) \X (0..(self.width - 1)) :
           ShiftTurnRaises(self, t[1], t[2])
    THEN Raises(self, "IndexError")
    ELSE Returns([self EXCEPT !.board =
                    PyListOf([r \in DOMAIN self.board |->
                       IF r < self.height
                       THEN PyListOf([c \in DOMAIN self.board[r] |->
                               IF c < self.width THEN self.board[0][c]
                               ELSE self.board[r][c]])
                       ELSE self.board[r]])],
                 None)

\* for row in range(self.height - 1, 0, -1): row takes row - 1, which no
\* earlier turn wrote, so every row but the top one ends as the row above it
\* was.  When a turn raises, the turns before it have been made.
ShiftBoardDown(self) ==
    LET turns == (1..(self.height - 1)) \X (0..(self.width - 1))
        raises == \E t \in turns : ShiftTurnRaises(self, t[1], t[2])
        \* t is made before u
        Before(t, u) == t[1] > u[1] \/ (t[1] = u[1] /\ t[2] < u[2])
        firstRaise ==
            CHOOSE t \in turns :
                /\ ShiftTurnRaises(self, t[1], t[2])
                /\ \A u \in turns :
                       ShiftTurnRaises(self, u[1], u[2]) => u = t \/ Before(t, u)
        Made(row, col) ==
            /\ 1 <= row /\ row < self.height /\ col < self.width
            /\ raises => Before(<<row, col>>, firstRaise)
        shifted == PyListOf([r \in DOMAIN self.board |->
                      PyListOf([c \in DOMAIN self.board[r] |->
                         IF Made(r, c) THEN self.board[r - 1][c]
                         ELSE self.board[r][c]])])
    IN  IF raises
        THEN Raises([self EXCEPT !.board = shifted], "IndexError")
        ELSE Returns([self EXCEPT !.board = shifted], None)

\* the tick without its loop that clears the top row, as C29 tells it from
\* the tick of the source
ClearTopRowSkipped(self) == Returns(self, None)

\* self.board[0].set_cell(col, DEAD) for col in range(self.width)
ClearTopRow(self) ==
    IF self.width <= 0 THEN Returns(self, None)
    ELSE IF ~CanIndex(self.board, 0) THEN Raises(self, "IndexError")
    ELSE Returns([self EXCEPT !.board[0] =
                     PyListOf([c \in DOMAIN self.board[0] |->
                        IF c < self.width THEN DEAD ELSE self.board[0][c]])],
                 None)

\* the steps after the harvest with the last two exchanged, as C1 tells it
\* from the order of the source: the rule is applied to the cleared top row
\* and the row is seeded afterwards, from the counter the rule left
ScrollAdvanceSeed(self) ==
    The({ IF advanced.exc # NoException THEN advanced
          ELSE add_random_top_row(advanced.self) :
          advanced \in {
            The({ IF cleared.exc # NoException THEN cleared
                  ELSE next_generation(cleared.self) :
                  cleared \in {
                    The({ IF shifted.exc # NoException THEN shifted
                          ELSE ClearTopRow(shifted.self) :
                          shifted \in {ShiftBoardDown(self)} }) } }) } })

\* the steps between the harvest and the rule, which write into the Rows
\* the board holds
ScrollSeed(self) ==
    The({ IF cleared.exc # NoException THEN cleared
          ELSE add_random_top_row(cleared.self) :
          cleared \in {
            The({ IF shifted.exc # NoException THEN shifted
                  ELSE ClearTopRow(shifted.self) :
                  shifted \in {ShiftBoardDown(self)} }) } })

\* the steps after the harvest, each on the object the step before left
ScrollSeedAdvance(self) ==
    The({ IF seeded.exc # NoException THEN seeded
          ELSE next_generation(seeded.self) :
          seeded \in {ScrollSeed(self)} })

\* the harvest made after the other steps, as C2 tells it from the order of
\* the source: the keys are those of the bottom row the call leaves
harvest_after_advance(self) ==
    The({ IF s.exc # NoException THEN Raises(s.self, s.exc)
          ELSE The({ IF h.exc # NoException THEN Raises(s.self, h.exc)
                     ELSE Returns(s.self, h.ret) :
                     h \in {HarvestBottomRow(s.self)} }) :
          s \in {ScrollSeedAdvance(self)} })

\* the harvest of the board as it is when the call starts, then the other
\* steps
get_bottom_row_and_advance(self) ==
    The({ IF h.exc # NoException THEN Raises(self, h.exc)
          ELSE The({ IF s.exc # NoException THEN Raises(s.self, s.exc)
                     ELSE Returns(s.self, h.ret) :
                     s \in {ScrollSeedAdvance(self)} }) :
          h \in {HarvestBottomRow(self)} })

\* get_row with the Row read off the bottom row after the tick, as C21
\* tells it from get_row
get_row_after_tick(self) ==
    The({ IF s.exc # NoException THEN s
          ELSE Returns(s.self, PyIndex(s.self.board, s.self.height - 1)) :
          s \in {get_bottom_row_and_advance(self)} })

\* Piano._row_to_keys: [i for i, cell in enumerate(cells) if cell == 1]
Piano_row_to_keys(row) ==
    SelectSeq(Range(PyLen(row)), LAMBDA i : row[i] = 1)

\* the harvested keys marked in a fresh Row of self.width cells
get_row(self) ==
    The({ IF s.exc # NoException THEN s
          ELSE Returns(s.self,
                       PyListOf([c \in 0..(s.self.width - 1) |->
                          IF \E k \in 1..Len(s.ret) : s.ret[k] = c
                          THEN ALIVE ELSE DEAD])) :
          s \in {get_bottom_row_and_advance(self)} })

\* ------------------------------------------------------------- initialisers
Min(a, b) == IF a < b THEN a ELSE b

Mid(lo, hi) == (lo + hi) \div 2

\* A pattern is a tuple of rows, a row a tuple of characters; enumerate()
\* counts from 0, the tuples from 1.  r is the record [self, ret, exc] the
\* turns before left.
PatternCell(r, pattern, row_idx, col_idx) ==
    IF pattern[row_idx + 1][col_idx + 1] \in {"O", "X", "*"}
    THEN set_cell(r.self, row_idx, col_idx, ALIVE)
    ELSE r

\* for col_idx, ch in enumerate(row_str), left at col_idx >= self.width
RECURSIVE PatternCols(_, _, _, _, _)
PatternCols(r, pattern, row_idx, lo, hi) ==
    IF hi <= lo \/ r.exc # NoException THEN r
    ELSE IF hi = lo + 1 THEN PatternCell(r, pattern, row_idx, lo)
    ELSE LET first == PatternCols(r, pattern, row_idx, lo, Mid(lo, hi))
         IN  PatternCols(first, pattern, row_idx, Mid(lo, hi), hi)

\* for row_idx, row_str in enumerate(pattern), left at row_idx >= self.height
RECURSIVE PatternRows(_, _, _, _)
PatternRows(r, pattern, lo, hi) ==
    IF hi <= lo \/ r.exc # NoException THEN r
    ELSE IF hi = lo + 1
         THEN PatternCols(r, pattern, lo, 0,
                          Min(Len(pattern[lo + 1]), r.self.width))
         ELSE LET first == PatternRows(r, pattern, lo, Mid(lo, hi))
              IN  PatternRows(first, pattern, Mid(lo, hi), hi)

\* from_pattern without "self.generation = 0", as C6 tells it from
\* from_pattern
from_pattern_keeping_counter(self, pattern) ==
    LET s == PatternRows(
                 Returns([self EXCEPT
                            !.board = PyList(self.height, PyList(self.width, DEAD))],
                         None),
                 pattern, 0, Min(Len(pattern), self.height))
    IN  IF s.exc # NoException THEN s ELSE Returns(s.self, SelfRef)

\* from_pattern with a row per row of the pattern instead of self.height
\* rows, as C8 tells it from from_pattern
from_pattern_sized_by_pattern(self, pattern) ==
    LET s == PatternRows(
                 Returns([self EXCEPT
                            !.board = PyList(Len(pattern), PyList(self.width, DEAD)),
                            !.generation = 0], None),
                 pattern, 0, Min(Len(pattern), self.height))
    IN  IF s.exc # NoException THEN s ELSE Returns(s.self, SelfRef)

\* from_pattern without "self.board = []" and the rows appended to it, as
\* C19 tells it from from_pattern: the pattern is written over the old board
from_pattern_over_old_board(self, pattern) ==
    LET s == PatternRows(Returns([self EXCEPT !.generation = 0], None),
                         pattern, 0, Min(Len(pattern), self.height))
    IN  IF s.exc # NoException THEN s ELSE Returns(s.self, SelfRef)

\* the board is rebuilt from self.height and self.width and the counter
\* reset, then the pattern is written; the object is returned
from_pattern(self, pattern) ==
    LET s == PatternRows(
                 Returns([self EXCEPT
                            !.board = PyList(self.height, PyList(self.width, DEAD)),
                            !.generation = 0], None),
                 pattern, 0, Min(Len(pattern), self.height))
    IN  IF s.exc # NoException THEN s ELSE Returns(s.self, SelfRef)

\* height=BOARD_HEIGHT in the signature: the height of a call that names
\* none (given == <<>>) or the one it names (given == <<h>>)
HeightArgument(given) == IF given = <<>> THEN BOARD_HEIGHT ELSE given[1]

\* random.random() in tenths: call number k of the stream named random
RandomDraw(random, k) == (random + 7 * k) % 10

\* alive_probability is in tenths; cell (r, c) takes draw number r * width + c
new_random_board(self, width, height, alive_probability, random) ==
    Returns([width |-> BOARD_WIDTH,
             height |-> height,
             board |-> PyListOf([r \in 0..(height - 1) |->
                          PyListOf([c \in 0..(width - 1) |->
                             IF RandomDraw(random, r * width + c) < alive_probability
                             THEN ALIVE ELSE DEAD])]),
             generation |-> 0],
            SelfRef)

\* [row.get_cells() for row in self.board]
get_board(self) == Returns(self, self.board)

get_generation(self) == Returns(self, self.generation)

\* ----------------------------------------------------------------- Piano
\* A Piano is its fields generations (<<>> for None, <<n>> for n) and
\* is_muted, the calls its audio engine has received (log), the number of
\* calls of _play_generation made on it (played) and the argument of the
\* last set_mute (mute_arg); its game is the Life object.
Piano_init(generations) ==
    [generations |-> generations, is_muted |-> FALSE, log |-> <<>>,
     played |-> 0, mute_arg |-> FALSE]

PianoReturns(game, p, value) ==
    [self |-> game, piano |-> p, ret |-> value, exc |-> NoException]

\* self.audio_engine.method(*args)
Forwarded(p, method, args) ==
    [p EXCEPT !.log = Append(@, [method |-> method, args |-> args])]

Piano_set_mute(p, game, mute) ==
    PianoReturns(game, [p EXCEPT !.is_muted = mute, !.mute_arg = mute], None)

Piano_get_mute_status(p, game) == PianoReturns(game, p, p.is_muted)

Piano_play_keys(p, game, keys) ==
    PianoReturns(game,
                 IF ~p.is_muted THEN Forwarded(p, "play_piano_keys", <<keys>>)
                 ELSE p,
                 None)

\* play_chord without "if not self.is_muted", as C24 tells it from
\* play_chord
Piano_play_chord_while_muted(p, game, keys, duration_ms) ==
    PianoReturns(game, Forwarded(p, "play_chord", <<keys, duration_ms>>), None)

Piano_play_chord(p, game, keys, duration_ms) ==
    PianoReturns(game,
                 IF ~p.is_muted
                 THEN Forwarded(p, "play_chord", <<keys, duration_ms>>)
                 ELSE p,
                 None)

Piano_play_sequence(p, game, keys, note_duration_ms, gap_ms) ==
    PianoReturns(game,
                 IF ~p.is_muted
                 THEN Forwarded(p, "play_note_sequence",
                                <<keys, note_duration_ms, gap_ms>>)
                 ELSE p,
                 None)

\* _play_generation without "not self.is_muted and", as C27 tells it from
\* _play_generation
Piano_play_generation_while_muted(p, game) ==
    LET q == [p EXCEPT !.played = @ + 1]
    IN  The({ IF t.exc # NoException
              THEN [self |-> t.self, piano |-> q, ret |-> None, exc |-> t.exc]
              ELSE PianoReturns(t.self,
                                IF t.ret # <<>>
                                THEN Forwarded(q, "play_piano_keys", <<t.ret>>)
                                ELSE q,
                                None) :
              t \in {get_bottom_row_and_advance(game)} })

\* _play_generation that returns at once when muted, as C28 tells it from
\* _play_generation
Piano_play_generation_unless_muted(p, game) ==
    LET q == [p EXCEPT !.played = @ + 1]
    IN  IF p.is_muted THEN PianoReturns(game, q, None)
        ELSE The({ IF t.exc # NoException
                   THEN [self |-> t.self, piano |-> q, ret |-> None, exc |-> t.exc]
                   ELSE PianoReturns(t.self,
                                     IF t.ret # <<>>
                                     THEN Forwarded(q, "play_piano_keys", <<t.ret>>)
                                     ELSE q,
                                     None) :
                   t \in {get_bottom_row_and_advance(game)} })

\* bottom_row_keys = GameBoard.get_bottom_row_and_advance(self.game), then
\* the keys go to the audio engine if not self.is_muted and bottom_row_keys
Piano_play_generation(p, game) ==
    LET q == [p EXCEPT !.played = @ + 1]
    IN  The({ IF t.exc # NoException
              THEN [self |-> t.self, piano |-> q, ret |-> None, exc |-> t.exc]
              ELSE PianoReturns(t.self,
                                IF ~p.is_muted /\ t.ret # <<>>
                                THEN Forwarded(q, "play_piano_keys", <<t.ret>>)
                                ELSE q,
                                None) :
              t \in {get_bottom_row_and_advance(game)} })

\* the turns of "for gen in range(count)" that are left, after r
RECURSIVE PlayLoop(_, _)
PlayLoop(r, turns) ==
    IF turns <= 0 \/ r.exc # NoException THEN r
    ELSE The({ PlayLoop(turn, turns - 1) :
                 turn \in {Piano_play_generation(r.piano, r.self)} })

\* _play_limited with range(count - 1), as C25 tells it from _play_limited
Piano_play_limited_one_short(p, game, count) ==
    PlayLoop(PianoReturns(game, p, None), count - 1)

Piano_play_limited(p, game, count) ==
    PlayLoop(PianoReturns(game, p, None), count)

\* play: _play_limited(self.generations), or, with generations None,
\* _play_unlimited until the KeyboardInterrupt that play catches, which
\* comes after interrupted turns of its loop
Piano_play(p, game, interrupted) ==
    IF p.generations = <<>>
    THEN PlayLoop(PianoReturns(game, p, None), interrupted)
    ELSE Piano_play_limited(p, game, p.generations[1])

\* ---------------------------------------------------------------- Config
\* The settings step_delay_ms and board_height of a Config, and the file
\* it was loaded from (<<>> for None). A value a source may give is <<>>
\* when the source does not give it and <<v>> when it gives v.
Config_init == [step_delay_ms |-> 200, board_height |-> 40, config_file |-> <<>>]

\* load_from_file: the keys step.delay.ms and board.height of the file
Config_load_from_file(config, file) ==
    [config EXCEPT
       !.step_delay_ms = IF file.step_delay # <<>> THEN file.step_delay[1] ELSE @,
       !.board_height = IF file.board_height # <<>> THEN file.board_height[1] ELSE @]

\* "if args.step_delay:" holds for a value given and other than 0
Truthy(given) == given # <<>> /\ given[1] # 0

\* from_args_and_env: the file named with --config is loaded first, then
\* the arguments given are applied, then the environment variables set
Config_from_args_and_env(args, environ, files) ==
    LET loaded == IF args.config
                  THEN Config_load_from_file(
                           [Config_init EXCEPT !.config_file = <<"named">>],
                           files.content)
                  ELSE Config_init
        argued == [loaded EXCEPT
                     !.step_delay_ms = IF Truthy(args.step_delay)
                                       THEN args.step_delay[1] ELSE @,
                     !.board_height = IF Truthy(args.board_height)
                                      THEN args.board_height[1] ELSE @]
    IN  [argued EXCEPT
           !.step_delay_ms = IF environ.step_delay # <<>>
                             THEN environ.step_delay[1] ELSE @,
           !.board_height = IF environ.board_height # <<>>
                            THEN environ.board_height[1] ELSE @]

\* load_config: when no file was named and the default one exists, it is
\* loaded into the Config that from_args_and_env returned
load_config(args, environ, files) ==
    LET config == Config_from_args_and_env(args, environ, files)
    IN  IF config.config_file = <<>> /\ files.at_default
        THEN Config_load_from_file([config EXCEPT !.config_file = <<"default">>],
                                   files.content)
        ELSE config

\* ------------------------------------------------------------- GameBoard
\* the cells GameBoard.create_block and create_gosper_glider_gun set, as
\* offsets from (row, col), in the order of the calls
BlockOffsets == << <<0, 0>>, <<0, 1>>, <<1, 0>>, <<1, 1>> >>

Shifted(offsets, dr, dc) ==
    [i \in 1..Len(offsets) |-> <<offsets[i][1] + dr, offsets[i][2] + dc>>]

GliderGunOffsets ==
    Shifted(BlockOffsets, 5, 0)
    \o << <<3, 10>>, <<4, 10>>, <<5, 10>>, <<2, 11>>, <<6, 11>>, <<1, 12>>,
          <<7, 12>>, <<1, 13>>, <<7, 13>>, <<4, 14>>, <<2, 15>>, <<6, 15>>,
          <<3, 16>>, <<4, 16>>, <<5, 16>>, <<4, 17>>,
          <<1, 20>>, <<2, 20>>, <<3, 20>>, <<1, 21>>, <<2, 21>>, <<3, 21>>,
          <<0, 22>>, <<4, 22>>, <<0 - 1, 24>>, <<0, 24>>, <<4, 24>>, <<5, 24>> >>
    \o Shifted(BlockOffsets, 3, 34)

\* game.set_cell(row + dr, col + dc, Cell.ALIVE) for each offset in turn
RECURSIVE StampLoop(_, _, _, _, _, _)
StampLoop(r, offsets, row, col, lo, hi) ==
    IF hi <= lo \/ r.exc # NoException THEN r
    ELSE IF hi = lo + 1
         THEN set_cell(r.self, row + offsets[lo][1], col + offsets[lo][2], ALIVE)
         ELSE LET first == StampLoop(r, offsets, row, col, lo, Mid(lo, hi))
              IN  StampLoop(first, offsets, row, col, Mid(lo, hi), hi)

create_gosper_glider_gun(game, row, col) ==
    StampLoop(Returns(game, None), GliderGunOffsets, row, col,
              1, Len(GliderGunOffsets) + 1)

\* GameBoard.create_block
create_block(game, row, col) ==
    StampLoop(Returns(game, None), BlockOffsets, row, col, 1, Len(BlockOffsets) + 1)

\* life.set_cell(r, c, 1) for each (r, c) of a list in turn, as the tests
\* draw a shape
set_cells(game, cells) ==
    StampLoop(Returns(game, None), cells, 0, 0, 1, Len(cells) + 1)

\* -------------------------------------------------------------------- state
VARIABLES
    width,       \* Life.width
    height,      \* Life.height
    board,       \* Life.board, the cells of each Row
    generation,  \* Life.generation
    op,          \* the last call made on the object, with its arguments
    ret,         \* what the call returned
    exc,         \* what the call raised
    calls,       \* number of calls made so far
    ticks,       \* rule applications asked for since the board was initialised
    before,      \* the counter as the last call found it
    ctor,        \* the arguments the constructor was given
    limit,       \* number of calls the run makes at most
    preset,      \* the shape drawn on the blank board, and where
    threads,     \* each thread's place in its call and its local variables
    start,       \* the object as the threads found it
    snapshot,    \* the lists get_board returned, as their holder sees them
    piano        \* the Piano that holds the object as its game

vars == <<width, height, board, generation, op, ret, exc, calls, ticks,
          before, ctor, limit, preset, threads, start, snapshot, piano>>

Self == [width |-> width, height |-> height, board |-> board,
         generation |-> generation]

\* two threads that hold the same Life object
Threads == {1, 2}

\* a thread that is in no call: bottom_row_keys, new_board and the value of
\* self.generation it loaded are the locals of a call
Idle == [pc |-> "idle", name |-> "", bottom_row_keys |-> <<>>,
         new_board |-> <<>>, loaded |-> 0]

\* ------------------------------------------------------------------- inputs
Heights == 1..MaxHeight
\* the (width, height) the constructor is given: a width below, at and above
\* BOARD_WIDTH, a height below, at and above 0
CtorArgs == { <<10, 1>>, <<10, MaxHeight>>, <<90, 1>>,
              <<BOARD_WIDTH, 0 - 1>>, <<BOARD_WIDTH, 0>>, <<BOARD_WIDTH, MaxHeight>> }
\* the two corners of the board
InRangeCells == { <<0, 0>>, <<height - 1, BOARD_WIDTH - 1>> }
\* a cell off each of the four edges of the board
OutOfRangeCells == { <<0 - 1, 0>>, <<height, BOARD_WIDTH - 1>>,
                     <<0, 0 - 1>>, <<height - 1, BOARD_WIDTH>> }
Cells == InRangeCells \cup OutOfRangeCells
\* the cells whose neighbours are counted: a corner, and one off the board
CountedCells == { <<0, 0>>, <<height - 1, BOARD_WIDTH - 1>>, <<height, 0>> }
CellValues == {DEAD, ALIVE}
\* where a glider gun is stamped: off the top edge, and off the top and right
GunOrigins == { <<0, 0>>, <<0 - 4, 60>> }
Patterns ==
    { << <<"O", "X", "*", ".", "o">> >>,
      [i \in 1..(MaxHeight + 1) |-> <<".", "O">>],
      << <<"X">>, <<" ", "*", "O">> >>,
      << [i \in 1..(BOARD_WIDTH + 1) |-> "*"] >> }
Probabilities == {0, 2, 10}
\* the (width, height) new_random_board is given; the height is <<h>>, or
\* <<>> in a call that names none
NewBoardArgs == { <<10, <<MaxHeight - 1>> >>, <<BOARD_WIDTH, <<MaxHeight - 1>> >>,
                  <<BOARD_WIDTH, <<0 - 1>> >> }
TickOps == {"next_generation", "get_bottom_row_and_advance", "get_row"}
ResetOps == {"from_pattern", "new_random_board"}

\* ------------------------------------------------------ the returned board
\* get_board returns a new list of row.get_cells(), and get_cells returns
\* self.cells itself: the lists returned are the lists the Rows of the board
\* hold (shared) until the board is given new Rows.
NoSnapshot == [taken |-> FALSE, shared |-> FALSE, rows |-> <<>>]

\* the calls that assign self.board a list of new Rows
ReplacingOps == {"next_generation", "get_bottom_row_and_advance", "get_row",
                 "from_pattern", "new_random_board"}

\* what the Rows the board held when the call name started hold when it has
\* returned r: a call that raised has not reached its assignment of
\* self.board; next_generation, from_pattern and new_random_board write
\* into new Rows only; a tick shifts, clears and seeds the old Rows first
OldRows(name, r) ==
    IF r.exc # NoException \/ name \notin ReplacingOps THEN r.self.board
    ELSE IF name \in {"get_bottom_row_and_advance", "get_row"}
         THEN ScrollSeed(Self).self.board
         ELSE board

\* the returned lists after the call name returned r
SnapshotAfter(name, r) ==
    IF name = "get_board"
    THEN [taken |-> TRUE, shared |-> TRUE, rows |-> r.ret]
    ELSE IF ~snapshot.shared THEN snapshot
    ELSE [taken |-> TRUE,
          shared |-> (r.exc # NoException \/ name \notin ReplacingOps),
          rows |-> OldRows(name, r)]

\* ------------------------------------------------------------------ actions
Built(w, h, n) ==
    /\ width = Life_init(w, h).width
    /\ height = Life_init(w, h).height
    /\ board = Life_init(w, h).board
    /\ generation = Life_init(w, h).generation
    /\ op = [name |-> "__init__", args |-> <<w, h>>]
    /\ ret = None
    /\ exc = NoException
    /\ calls = 0
    /\ ticks = 0
    /\ before = 0
    /\ ctor = <<w, h>>
    /\ limit = n
    /\ preset = [name |-> "none", row |-> 0, col |-> 0, cells |-> <<>>]
    /\ threads = [t \in Threads |-> Idle]
    /\ start = Life_init(w, h)
    /\ snapshot = NoSnapshot

\* a Life object that no Piano holds
Constructed(w, h, n) ==
    /\ Built(w, h, n)
    /\ piano = Piano_init(<<>>)

\* Life(height=h): the width argument takes its default
Init == \E h \in Heights : Constructed(BOARD_WIDTH, h, MaxCalls)

\* Life(width=w, height=h) for any arguments
InitAny == \E a \in CtorArgs : Constructed(a[1], a[2], MaxAnyCalls)

\* the object, the result and the record of the call after a call returned r
Returned(name, args, result) ==
    /\ calls < limit
    /\ \E r \in {result} :
          /\ width' = r.self.width
          /\ height' = r.self.height
          /\ board' = r.self.board
          /\ generation' = r.self.generation
          /\ ret' = r.ret
          /\ exc' = r.exc
          /\ snapshot' = SnapshotAfter(name, r)
    /\ op' = [name |-> name, args |-> args]
    /\ calls' = calls + 1
    /\ ticks' = IF name \in TickOps THEN ticks + 1
                ELSE IF name \in ResetOps THEN 0 ELSE ticks
    /\ before' = generation
    /\ UNCHANGED <<ctor, limit, threads, start>>

Called(name, args, r) == Returned(name, args, r) /\ UNCHANGED <<preset, piano>>

\* a call of a method of the Piano, which leaves the Piano r.piano
PianoCalled(name, args, result) ==
    \E r \in {result} :
        /\ Returned(name, args, r)
        /\ piano' = r.piano
        /\ UNCHANGED preset

\* a shape drawn on the board as the constructor left it
Drawn(shape, name, args, r) ==
    /\ calls = 0
    /\ Returned(name, args, r)
    /\ preset' = shape
    /\ UNCHANGED piano

CallSetCell ==
    \E cell \in Cells, value \in CellValues :
        /\ cell \in OutOfRangeCells => value = ALIVE
        /\ Called("set_cell", <<cell[1], cell[2], value>>,
                  set_cell(Self, cell[1], cell[2], value))

CallGetCell ==
    \E cell \in Cells :
        Called("get_cell", cell, get_cell(Self, cell[1], cell[2]))

CallCountLiveNeighbors ==
    \E cell \in CountedCells :
        Called("count_live_neighbors", cell,
               count_live_neighbors(Self, cell[1], cell[2]))

CallGetBoard == Called("get_board", <<>>, get_board(Self))

CallAddRandomTopRow ==
    Called("add_random_top_row", <<>>, add_random_top_row(Self))

CallNextGeneration ==
    /\ generation < MaxGen
    /\ Called("next_generation", <<>>, next_generation(Self))

CallGetBottomRowAndAdvance ==
    /\ generation < MaxGen
    /\ Called("get_bottom_row_and_advance", <<>>, get_bottom_row_and_advance(Self))

CallGetRow ==
    /\ generation < MaxGen
    /\ Called("get_row", <<>>, get_row(Self))

CallFromPattern ==
    \E pattern \in Patterns :
        Called("from_pattern", <<pattern>>, from_pattern(Self, pattern))

CallCreateGosperGliderGun ==
    \E origin \in GunOrigins :
        Called("create_gosper_glider_gun", origin,
               create_gosper_glider_gun(Self, origin[1], origin[2]))

CallNewRandomBoard ==
    \E a \in NewBoardArgs, p \in Probabilities :
        Called("new_random_board", <<a[1], a[2], p>>,
               new_random_board(Self, a[1], HeightArgument(a[2]), p, 3))

\* the operations on a board built with valid dimensions
Next ==
    \/ CallSetCell
    \/ CallGetCell
    \/ CallCountLiveNeighbors
    \/ CallGetBoard
    \/ CallAddRandomTopRow
    \/ CallNextGeneration
    \/ CallGetBottomRowAndAdvance
    \/ CallGetRow
    \/ CallFromPattern
    \/ CallCreateGosperGliderGun

Spec == Init /\ [][Next]_vars

\* every public operation, on a board built from any constructor arguments
NextAny ==
    \/ CallSetCell
    \/ CallGetCell
    \/ CallCountLiveNeighbors
    \/ CallGetBoard
    \/ CallAddRandomTopRow
    \/ CallNextGeneration
    \/ CallGetBottomRowAndAdvance
    \/ CallGetRow
    \/ CallFromPattern
    \/ CallCreateGosperGliderGun
    \/ CallNewRandomBoard

SpecAny == InitAny /\ [][NextAny]_vars

\* --------------------------------------------- shapes under next_generation
\* boards tall enough for a shape with all of its neighbours on the board
PresetHeights == {MaxHeight + 2, MaxHeight + 3}

InitPreset == \E h \in PresetHeights : Constructed(BOARD_WIDTH, h, MaxPresetCalls)

\* where the top left cell of a block goes: in the corners, against the edges
\* and away from them
BlockOrigins == {0, 1, height - 2} \X {0, 1, 43, BOARD_WIDTH - 3, BOARD_WIDTH - 2}

CallCreateBlock ==
    \E origin \in BlockOrigins :
        Drawn([name |-> "block", row |-> origin[1], col |-> origin[2],
               cells |-> Shifted(BlockOffsets, origin[1], origin[2])],
              "create_block", origin, create_block(Self, origin[1], origin[2]))

\* the middle cell of a column of three cells whose neighbours are all on
\* the board
BlinkerCentres == (2..(height - 3)) \X {2, 3, 44, BOARD_WIDTH - 4, BOARD_WIDTH - 3}

VerticalBlinker(row, col) == << <<row - 1, col>>, <<row, col>>, <<row + 1, col>> >>

CallSetBlinker ==
    \E centre \in BlinkerCentres :
        Drawn([name |-> "blinker", row |-> centre[1], col |-> centre[2],
               cells |-> VerticalBlinker(centre[1], centre[2])],
              "set_cells", VerticalBlinker(centre[1], centre[2]),
              set_cells(Self, VerticalBlinker(centre[1], centre[2])))

Corners == {0, height - 1} \X {0, BOARD_WIDTH - 1}

\* the cells next to the corner (row, col) on a board with glued edges that
\* are not next to it on the board: on the opposite row, on the opposite
\* column, and the opposite corner
FarRow(row, col) ==
    << <<height - 1 - row, col>>,
       <<height - 1 - row, IF col = 0 THEN 1 ELSE BOARD_WIDTH - 2>> >>

FarColumn(row, col) ==
    << <<row, BOARD_WIDTH - 1 - col>>,
       <<IF row = 0 THEN 1 ELSE height - 2, BOARD_WIDTH - 1 - col>> >>

FarCorner(row, col) == << <<height - 1 - row, BOARD_WIDTH - 1 - col>> >>

FarFills(row, col) ==
    { <<>>, FarRow(row, col), FarColumn(row, col),
      FarRow(row, col) \o FarColumn(row, col) \o FarCorner(row, col) }

CallSetCorner ==
    \E corner \in Corners :
        \E far \in FarFills(corner[1], corner[2]) :
            Drawn([name |-> "corner", row |-> corner[1], col |-> corner[2],
                   cells |-> <<corner>> \o far],
                  "set_cells", <<corner>> \o far,
                  set_cells(Self, <<corner>> \o far))

\* a shape drawn on a blank board, then next_generation again and again
NextPreset ==
    \/ CallCreateBlock
    \/ CallSetBlinker
    \/ CallSetCorner
    \/ CallNextGeneration

SpecPreset == InitPreset /\ [][NextPreset]_vars

\* ------------------------------------------------ boards filled at random
InitRandom == \E a \in CtorArgs : Constructed(a[1], a[2], MaxRandomCalls)

\* new_random_board(alive_probability=p): no width and no height are named
CallNewRandomBoardDefault ==
    \E p \in Probabilities :
        Called("new_random_board", <<BOARD_WIDTH, <<>>, p>>,
               new_random_board(Self, BOARD_WIDTH, HeightArgument(<<>>), p, 3))

NextRandom ==
    \/ CallNewRandomBoard
    \/ CallNewRandomBoardDefault

SpecRandom == InitRandom /\ [][NextRandom]_vars

\* ------------------------------------------------- a Piano and its engine
\* Piano(generations=g, height=h, audio_enabled=False)
PianoGenerations == { <<>>, <<2>> }

InitPiano ==
    \E h \in Heights, g \in PianoGenerations :
        /\ Built(BOARD_WIDTH, h, MaxPianoCalls)
        /\ piano = Piano_init(g)

KeyLists == { <<>>, <<10, 20, 30>> }

CallSetMute ==
    \E mute \in BOOLEAN :
        PianoCalled("set_mute", <<mute>>, Piano_set_mute(piano, Self, mute))

CallGetMuteStatus ==
    PianoCalled("get_mute_status", <<>>, Piano_get_mute_status(piano, Self))

CallPlayKeys ==
    \E keys \in KeyLists :
        PianoCalled("play_keys", <<keys>>, Piano_play_keys(piano, Self, keys))

CallPlayChord ==
    \E keys \in KeyLists :
        PianoCalled("play_chord", <<keys, 500>>,
                    Piano_play_chord(piano, Self, keys, 500))

CallPlaySequence ==
    \E keys \in KeyLists :
        PianoCalled("play_sequence", <<keys, 200, 50>>,
                    Piano_play_sequence(piano, Self, keys, 200, 50))

NextPianoKeys ==
    \/ CallSetMute
    \/ CallGetMuteStatus
    \/ CallPlayKeys
    \/ CallPlayChord
    \/ CallPlaySequence

SpecPianoKeys == InitPiano /\ [][NextPianoKeys]_vars

\* piano.game.set_cell(h - 1, 1, 1) and piano.game.set_cell(h - 1, 3, 1)
BottomKeys == << <<height - 1, 1>>, <<height - 1, 3>> >>

CallSetBottomKeys ==
    Drawn([name |-> "keys", row |-> height - 1, col |-> 1, cells |-> BottomKeys],
          "set_cells", BottomKeys, set_cells(Self, BottomKeys))

CallPlayGeneration ==
    /\ generation < MaxGen
    /\ PianoCalled("_play_generation", <<>>, Piano_play_generation(piano, Self))

CallPlayLimited ==
    \E count \in {0, 2} :
        /\ generation + count <= MaxGen
        /\ PianoCalled("_play_limited", <<count>>,
                       Piano_play_limited(piano, Self, count))

CallPlay ==
    /\ generation + 2 <= MaxGen
    /\ PianoCalled("play", <<>>, Piano_play(piano, Self, 1))

NextPianoPlay ==
    \/ CallSetBottomKeys
    \/ CallSetMute
    \/ CallPlayGeneration
    \/ CallPlayLimited
    \/ CallPlay

SpecPianoPlay == InitPiano /\ [][NextPianoPlay]_vars

\* -------------------------------------------------- the configuration read
InitConfig == Constructed(BOARD_WIDTH, 1, 1)

\* the command line: --config names an existing file or is not given
ConfigArgs ==
    [config : BOOLEAN, step_delay : {<<>>, <<0>>, <<100>>},
     board_height : {<<>>, <<5>>}]

ConfigEnviron == [step_delay : {<<>>, <<50>>}, board_height : {<<>>, <<9>>}]

\* the properties file, and whether a copy is at the default location
ConfigFiles ==
    [at_default : BOOLEAN,
     content : [step_delay : {<<>>, <<300>>}, board_height : {<<>>, <<7>>}]]

CallLoadConfig ==
    \E args \in ConfigArgs, environ \in ConfigEnviron, files \in ConfigFiles :
        Called("load_config", <<args, environ, files>>,
               Returns(Self, load_config(args, environ, files)))

NextConfig == CallLoadConfig

SpecConfig == InitConfig /\ [][NextConfig]_vars

\* ------------------------------------------ a caller that holds the board
InitSnapshot == \E h \in Heights : Constructed(BOARD_WIDTH, h, MaxSnapshotCalls)

\* the holder of the returned lists writes value into list row at col:
\* get_board()[row][col] = value
WriteReturnedRow ==
    \E cell \in InRangeCells, value \in CellValues :
        /\ calls < limit
        /\ snapshot.taken
        /\ snapshot' = [snapshot EXCEPT !.rows[cell[1]][cell[2]] = value]
        /\ board' = IF snapshot.shared
                    THEN [board EXCEPT ![cell[1]][cell[2]] = value]
                    ELSE board
        /\ op' = [name |-> "write_returned_row",
                  args |-> <<cell[1], cell[2], value>>]
        /\ calls' = calls + 1
        /\ before' = generation
        /\ UNCHANGED <<width, height, generation, ret, exc, ticks, ctor,
                       limit, preset, threads, start, piano>>

NextSnapshot ==
    \/ CallGetBoard
    \/ CallSetCell
    \/ CallAddRandomTopRow
    \/ CallNextGeneration
    \/ CallGetBottomRowAndAdvance
    \/ WriteReturnedRow

SpecSnapshot == InitSnapshot /\ [][NextSnapshot]_vars

\* ------------------------------------------- two threads on the same object
\* The source takes no lock, so the interpreter may switch threads between
\* any two bytecodes of a call. A step below is a stretch of a call that runs
\* with no switch inside it; every run of the steps is therefore a run the
\* interpreter can make.
InitThreads == \E h \in Heights : Constructed(BOARD_WIDTH, h, Cardinality(Threads))

ThreadOps == {"next_generation", "get_bottom_row_and_advance"}

FirstStep(name) == IF name = "next_generation" THEN "compute" ELSE "harvest"

\* both threads call: thread t calls names[t]
CallConcurrently ==
    \E names \in [Threads -> ThreadOps] :
        /\ calls = 0
        /\ \A t \in Threads : threads[t].pc = "idle"
        /\ threads' = [t \in Threads |->
                          [Idle EXCEPT !.pc = FirstStep(names[t]),
                                       !.name = names[t]]]
        /\ start' = Self
        /\ op' = [name |-> "threads", args |-> <<names[1], names[2]>>]
        /\ calls' = calls + Cardinality(Threads)
        /\ UNCHANGED <<width, height, board, generation, ret, exc, ticks,
                       before, ctor, limit, preset, snapshot, piano>>

\* thread t goes from the step at to the step to with its locals as locals
\* and the object as self
Stepped(t, at, to, locals, self) ==
    /\ threads[t].pc = at
    /\ threads' = [threads EXCEPT ![t] = [locals EXCEPT !.pc = to]]
    /\ board' = self.board
    /\ generation' = self.generation
    /\ UNCHANGED <<width, height, op, ret, exc, calls, ticks, before, ctor,
                   limit, preset, start, snapshot, piano>>

\* for col in range(self.width): ... bottom_row_keys.append(col)
ThreadHarvest ==
    \E t \in Threads :
        Stepped(t, "harvest", "shift",
                [threads[t] EXCEPT !.bottom_row_keys = HarvestBottomRow(Self).ret],
                Self)

ThreadShift ==
    \E t \in Threads :
        Stepped(t, "shift", "clear", threads[t], ShiftBoardDown(Self).self)

ThreadClear ==
    \E t \in Threads :
        Stepped(t, "clear", "seed", threads[t], ClearTopRow(Self).self)

ThreadSeed ==
    \E t \in Threads :
        Stepped(t, "seed", "compute", threads[t], add_random_top_row(Self).self)

\* new_board = copy.deepcopy(self.board) and the two loops that write the
\* rule into new_board
ThreadCompute ==
    \E t \in Threads :
        Stepped(t, "compute", "store_board",
                [threads[t] EXCEPT !.new_board = next_generation(Self).self.board],
                Self)

\* self.board = new_board
ThreadStoreBoard ==
    \E t \in Threads :
        Stepped(t, "store_board", "load_generation", threads[t],
                [Self EXCEPT !.board = threads[t].new_board])

\* self.generation += 1: LOAD_ATTR generation
ThreadLoadGeneration ==
    \E t \in Threads :
        Stepped(t, "load_generation", "store_generation",
                [threads[t] EXCEPT !.loaded = generation], Self)

\* self.generation += 1: BINARY_OP += and STORE_ATTR generation
ThreadStoreGeneration ==
    \E t \in Threads :
        Stepped(t, "store_generation", "done", threads[t],
                [Self EXCEPT !.generation = threads[t].loaded + 1])

NextThreads ==
    \/ CallConcurrently
    \/ ThreadHarvest
    \/ ThreadShift
    \/ ThreadClear
    \/ ThreadSeed
    \/ ThreadCompute
    \/ ThreadStoreBoard
    \/ ThreadLoadGeneration
    \/ ThreadStoreGeneration

SpecThreads == InitThreads /\ [][NextThreads]_vars

\* ------------------------------------------------- a row that scrolls down
\* a board, and calls enough to draw a row and harvest it from any row
InitScroll == \E h \in Heights : Constructed(BOARD_WIDTH, h, MaxHeight + 1)

\* the columns set ALIVE in the row: single cells at the edges, cells next
\* to each other, cells apart, the whole row
RowContents ==
    { <<0>>, <<BOARD_WIDTH - 1>>, <<10, 11, 12>>, <<43, 44>>, <<5, 50>>,
      Range(BOARD_WIDTH) }

RowCells(row, columns) == [i \in 1..Len(columns) |-> <<row, columns[i]>>]

CallSetRow ==
    \E row \in 0..(height - 1), columns \in RowContents :
        Drawn([name |-> "row", row |-> row, col |-> columns[1],
               cells |-> RowCells(row, columns)],
              "set_cells", RowCells(row, columns),
              set_cells(Self, RowCells(row, columns)))

NextScroll ==
    \/ CallSetRow
    \/ CallGetBottomRowAndAdvance

SpecScroll == InitScroll /\ [][NextScroll]_vars

\* ------------------------------------------------------- what the text says
\* the live neighbours of (r, c) on a board b of h rows of BOARD_WIDTH cells:
\* the in-range cells at distance one, the cell itself excluded
LiveAround(b, h, r, c) ==
    Cardinality({ n \in ((r - 1)..(r + 1)) \X ((c - 1)..(c + 1)) :
                    /\ n # <<r, c>>
                    /\ n[1] \in 0..(h - 1)
                    /\ n[2] \in 0..(BOARD_WIDTH - 1)
                    /\ b[n[1]][n[2]] = ALIVE })

\* Conway's rule for the cell (r, c) of b
RuleCell(b, h, r, c) ==
    IF \/ b[r][c] = ALIVE /\ LiveAround(b, h, r, c) \in {2, 3}
       \/ b[r][c] # ALIVE /\ LiveAround(b, h, r, c) = 3
    THEN ALIVE ELSE DEAD

\* b has h rows of BOARD_WIDTH cells
IsBoard(b, h) ==
    /\ DOMAIN b = 0..(h - 1)
    /\ \A r \in 0..(h - 1) : DOMAIN b[r] = 0..(BOARD_WIDTH - 1)

\* b is Conway's rule applied to every cell of the board a of h rows at once
IsRuleOf(b, a, h) ==
    /\ IsBoard(b, h)
    /\ \A r \in 0..(h - 1), c \in 0..(BOARD_WIDTH - 1) :
           b[r][c] = RuleCell(a, h, r, c)

\* the live columns of the row the source's generator yields for counter g,
\* as printed by the source run on generations 0..9
GeneratedColumns(g) ==
    CASE g = 0 -> {1, 20, 30, 33, 34, 37, 39, 44, 47, 53, 57, 61, 67, 68, 70, 87}
      [] g = 1 -> {3, 6, 16, 25, 28, 33, 35, 43, 46, 51, 58, 73, 79, 82, 84}
      [] g = 2 -> {7, 14, 17, 19, 20, 26, 32, 43, 49, 50, 51, 59, 60, 61, 70, 74, 78, 81, 85}
      [] g = 3 -> {0, 4, 5, 12, 19, 20, 40, 45, 46, 54, 65, 68, 73, 82}
      [] g = 4 -> {20, 25, 46, 54, 55, 57, 60, 62, 70, 75, 81, 82, 83}
      [] g = 5 -> {5, 9, 10, 11, 14, 19, 27, 41, 42, 45, 48, 51, 58, 64, 66, 73, 77}
      [] g = 6 -> {0, 1, 11, 13, 15, 16, 21, 30, 32, 50, 52, 61, 69, 72, 82, 85}
      [] g = 7 -> {3, 6, 7, 8, 15, 27, 29, 32, 34, 45, 49, 50, 63, 67, 86}
      [] g = 8 -> {0, 8, 11, 14, 22, 27, 30, 32, 34, 43, 46, 47, 54, 56, 58, 63, 65, 75, 81, 83, 84, 85, 87}
      [] g = 9 -> {8, 15, 26, 38, 39, 45, 53, 56, 61, 62, 71, 75, 76, 81, 86}

GeneratedRow(g) ==
    [c \in 0..(BOARD_WIDTH - 1) |-> IF c \in GeneratedColumns(g) THEN ALIVE ELSE DEAD]

\* b scrolled down by one row, with the generated row of counter g on top
Scrolled(b, h, g) ==
    [r \in 0..(h - 1) |-> IF r = 0 THEN GeneratedRow(g) ELSE b[r - 1]]

LiveColumns(cells) == { c \in DOMAIN cells : cells[c] = ALIVE }

IsAscending(keys) == \A i \in 1..(Len(keys) - 1) : keys[i] < keys[i + 1]

Elements(keys) == { keys[i] : i \in 1..Len(keys) }

\* C1: one get_bottom_row_and_advance on a board of height >= 1 leaves the
\* rule applied to the board scrolled down by one row with the row generated
\* from the counter before the call on top
C1_TickIsRuleOfScrolledSeeded ==
    [][op'.name = "get_bottom_row_and_advance"
         => /\ exc' = NoException
            /\ IsRuleOf(board', Scrolled(board, height, generation), height)]_vars

\* a tick on a board of two rows or more that left live cells in rows 0 and 1
C1_Witness ==
    /\ op.name = "get_bottom_row_and_advance"
    /\ exc = NoException
    /\ height >= 2
    /\ generation = before + 1
    /\ LiveColumns(board[0]) # {}
    /\ LiveColumns(board[1]) # {}

\* C2: get_bottom_row_and_advance returns the live columns of the bottom row
\* as it stood before the call, in strictly ascending order
C2_HarvestIsBottomRow ==
    [][op'.name = "get_bottom_row_and_advance"
         => /\ exc' = NoException
            /\ IsAscending(ret')
            /\ Elements(ret') = LiveColumns(board[height - 1])]_vars

\* a harvest of several keys that differs from the bottom row after the tick
C2_Witness ==
    /\ op.name = "get_bottom_row_and_advance"
    /\ exc = NoException
    /\ Len(ret) >= 2
    /\ Elements(ret) # LiveColumns(board[height - 1])

\* C3: next_generation replaces the board by Conway's rule applied to every
\* cell of the board as it was before the call
C3_NextGenerationIsRule ==
    [][op'.name = "next_generation"
         => /\ exc' = NoException
            /\ IsRuleOf(board', board, height)]_vars

\* a rule application that left live cells
C3_Witness ==
    /\ op.name = "next_generation"
    /\ \E r \in 0..(height - 1) : LiveColumns(board[r]) # {}

\* every cell of b is DEAD or ALIVE
IsBinary(b) == \A r \in DOMAIN b : \A c \in DOMAIN b[r] : b[r][c] \in {DEAD, ALIVE}

\* C5: next_generation, get_bottom_row_and_advance and get_row each add
\* exactly one to the counter, so the counter is the number of ticks made
\* since the board was initialised at generation 0
C5_TickAddsOne ==
    [][/\ op'.name \in TickOps
           => exc' = NoException /\ generation' = generation + 1
       /\ generation' = ticks']_vars

\* a get_row that followed another tick
C5_Witness ==
    /\ op.name = "get_row"
    /\ exc = NoException
    /\ before >= 1
    /\ generation = before + 1

\* C6, as the text has it: over the public operations the counter never
\* decreases and changes only inside next_generation
C6_Original ==
    [][/\ generation' >= generation
       /\ op'.name \notin TickOps => generation' = generation]_vars

\* C6, amended: the counter is never negative; next_generation, alone or
\* inside get_bottom_row_and_advance and get_row, adds one to it when it
\* returns and leaves it alone when it raises; from_pattern and
\* new_random_board set it to 0; every other operation leaves it unchanged
C6_CounterChanges ==
    [][/\ generation' >= 0
       /\ op'.name \in TickOps
            => generation' = IF exc' = NoException THEN generation + 1
                             ELSE generation
       /\ op'.name \in ResetOps => generation' = 0
       /\ op'.name \notin (TickOps \cup ResetOps) => generation' = generation]_vars

\* a from_pattern that found the counter above 0 and left it at 0
C6_Witness ==
    /\ op.name = "from_pattern"
    /\ before >= 1
    /\ generation = 0

\* C7: whatever width and height the constructor is given, the object has
\* width 88, height rows (none when height is negative) of 88 DEAD cells
\* each, and generation 0
C7_ConstructorIgnoresWidth ==
    op.name = "__init__"
        => /\ width = BOARD_WIDTH
           /\ generation = 0
           /\ PyLen(board) = (IF ctor[2] >= 0 THEN ctor[2] ELSE 0)
           /\ \A r \in DOMAIN board :
                  /\ DOMAIN board[r] = 0..(BOARD_WIDTH - 1)
                  /\ \A c \in DOMAIN board[r] : board[r][c] = DEAD

GunCells(row, col) ==
    { <<row + GliderGunOffsets[i][1], col + GliderGunOffsets[i][2]>> :
        i \in 1..Len(GliderGunOffsets) }

\* C9: set_cell(row, col, v) never raises, leaves the counter alone and
\* changes the cell (row, col) of the board to v and no other cell, so
\* nothing when (row, col) is off the board; a glider gun sets the cells of
\* its shape that are on the board and no other
C9_SetCellFrame ==
    [][/\ op'.name = "set_cell"
           => /\ exc' = NoException
              /\ generation' = generation
              /\ IsBoard(board', height)
              /\ \A r \in 0..(height - 1), c \in 0..(BOARD_WIDTH - 1) :
                     board'[r][c] = IF <<r, c>> = <<op'.args[1], op'.args[2]>>
                                    THEN op'.args[3] ELSE board[r][c]
       /\ op'.name = "create_gosper_glider_gun"
           => /\ exc' = NoException
              /\ generation' = generation
              /\ IsBoard(board', height)
              /\ \A r \in 0..(height - 1), c \in 0..(BOARD_WIDTH - 1) :
                     board'[r][c] = IF <<r, c>> \in GunCells(op'.args[1], op'.args[2])
                                    THEN ALIVE ELSE board[r][c]]_vars

\* a set_cell above the top edge of a board that holds live cells
C9_Witness ==
    /\ op.name = "set_cell"
    /\ op.args[1] < 0
    /\ exc = NoException
    /\ \E r \in 0..(height - 1) : LiveColumns(board[r]) # {}

\* C10: on a board built from any constructor arguments, get_cell(row, col)
\* never raises, never changes the board, and returns the stored cell when
\* 0 <= row < height and 0 <= col < 88 and DEAD otherwise
C10_GetCellTotal ==
    [][op'.name = "get_cell"
         => /\ exc' = NoException
            /\ board' = board
            /\ ret' = IF /\ 0 <= op'.args[1] /\ op'.args[1] < height
                         /\ 0 <= op'.args[2] /\ op'.args[2] < BOARD_WIDTH
                      THEN board[op'.args[1]][op'.args[2]]
                      ELSE DEAD]_vars

\* C11: count_live_neighbors(row, col) never raises, leaves the board alone
\* and returns the number, in 0..8, of ALIVE cells among the positions at
\* distance one from (row, col) that lie on the board, the cell itself and
\* the positions off the board not counted and nothing wrapped around
C11_NeighborCount ==
    [][op'.name = "count_live_neighbors"
         => /\ exc' = NoException
            /\ board' = board
            /\ ret' \in 0..8
            /\ ret' = LiveAround(board, height, op'.args[1], op'.args[2])]_vars

\* a count at the top left corner that found a live neighbour while the
\* cell at the other end of the top row was alive
C11_Witness ==
    /\ op.name = "count_live_neighbors"
    /\ op.args = <<0, 0>>
    /\ ret >= 1
    /\ board[0][BOARD_WIDTH - 1] = ALIVE

\* The generator of the text, on states written as four bytes, least
\* significant first: s' = (1664525 * s + 1013904223) mod 2^32.
Byte(n, k) == (n \div (256 ^ k)) % 256

\* the sum of the byte products of weight 256^k, and the byte of the increment
ByteColumn(st, k) ==
    LET Term(j) == IF j <= k THEN Byte(1664525, j) * st[k - j + 1] ELSE 0
    IN  Term(0) + Term(1) + Term(2) + Term(3) + Byte(1013904223, k)

ByteStep(st) ==
    LET r0 == ByteColumn(st, 0)
        r1 == ByteColumn(st, 1) + (r0 \div 256)
        r2 == ByteColumn(st, 2) + (r1 \div 256)
        r3 == ByteColumn(st, 3) + (r2 \div 256)
    IN  <<r0 % 256, r1 % 256, r2 % 256, r3 % 256>>

\* s_1 .. s_n from s_0 = st
RECURSIVE ByteStates(_, _)
ByteStates(st, n) ==
    IF n <= 0 THEN <<>>
    ELSE IF n = 1 THEN <<ByteStep(st)>>
    ELSE LET first == ByteStates(st, n \div 2)
         IN  first \o ByteStates(first[Len(first)], n - (n \div 2))

\* the low four bytes of the seed derived from counter g: the higher bytes
\* do not reach s_1
SeedBytes(g) ==
    << md5_seed(g)[1] % 256, md5_seed(g)[1] \div 256,
       md5_seed(g)[2] % 256, md5_seed(g)[2] \div 256 >>

\* the columns c with s_(c+1) mod 5 = 0 (256 mod 5 = 1)
SeededColumns(g) ==
    LET states == ByteStates(SeedBytes(g), BOARD_WIDTH)
    IN  { c \in 0..(BOARD_WIDTH - 1) :
            (states[c + 1][1] + states[c + 1][2]
               + states[c + 1][3] + states[c + 1][4]) % 5 = 0 }

\* C12, as the text has it: after add_random_top_row cell c of the top row
\* is ALIVE if s_(c+1) mod 5 = 0 and DEAD otherwise
C12_Original ==
    [][op'.name = "add_random_top_row"
         => LiveColumns(board'[0]) = SeededColumns(generation)]_vars

\* C12, amended: add_random_top_row never raises, leaves the counter and
\* the rows below the top one alone, and leaves cell c of the top row ALIVE
\* iff s_(c+1) mod 5 = 0 or the cell was ALIVE before the call; the columns
\* with s_(c+1) mod 5 = 0 are those the source prints for the counter
C12_SeededRow ==
    [][op'.name = "add_random_top_row"
         => /\ exc' = NoException
            /\ generation' = generation
            /\ IsBoard(board', height)
            /\ IsBinary(board')
            /\ LiveColumns(board'[0])
                  = SeededColumns(generation) \cup LiveColumns(board[0])
            /\ SeededColumns(generation) = GeneratedColumns(generation)
            /\ \A r \in 1..(height - 1) : board'[r] = board[r]]_vars

\* an add_random_top_row that left alive a cell of the top row the generator
\* did not pick
C12_Witness ==
    /\ op.name = "add_random_top_row"
    /\ exc = NoException
    /\ LiveColumns(board[0]) \ SeededColumns(generation) # {}
    /\ SeededColumns(generation) \subseteq LiveColumns(board[0])
    /\ SeededColumns(generation) # {}

\* C13: a constructor call with a negative height raises instead of
\* yielding an object, and the height of a constructed object is the number
\* of rows it stores
C13_NegativeHeightRejected ==
    op.name = "__init__"
        => /\ ctor[2] < 0 => exc # NoException
           /\ exc = NoException => height = PyLen(board)

\* C14: on a board built from any width argument and a height of 0 or more,
\* count_live_neighbors, next_generation and get_bottom_row_and_advance
\* return without raising
C14_OperationsNeverRaise ==
    [][(/\ ctor[2] >= 0
        /\ op'.name \in {"count_live_neighbors", "next_generation",
                         "get_bottom_row_and_advance"})
         => exc' = NoException]_vars

\* the cells of b that are ALIVE
LiveCells(b) == { cell \in UNION { {r} \X DOMAIN b[r] : r \in DOMAIN b } :
                    b[cell[1]][cell[2]] = ALIVE }

\* C15: three ALIVE cells in a column, their neighbours all on an otherwise
\* DEAD board, are after one next_generation the three cells in a row around
\* the middle one and nothing else, and after a second the column again
C15_BlinkerPeriodTwo ==
    preset.name = "blinker"
        => /\ exc = NoException
           /\ LiveCells(board)
                = IF generation % 2 = 0
                  THEN { <<preset.row - 1, preset.col>>, <<preset.row, preset.col>>,
                         <<preset.row + 1, preset.col>> }
                  ELSE { <<preset.row, preset.col - 1>>, <<preset.row, preset.col>>,
                         <<preset.row, preset.col + 1>> }

\* a column of three back after two applications of the rule
C15_Witness ==
    /\ preset.name = "blinker"
    /\ op.name = "next_generation"
    /\ generation = 2
    /\ LiveCells(board) = Elements(preset.cells)

\* C16: a block of two by two ALIVE cells, all on an otherwise DEAD board,
\* is the whole content of the board after any number of next_generation
C16_BlockIsStill ==
    preset.name = "block"
        => /\ exc = NoException
           /\ LiveCells(board)
                = { <<preset.row, preset.col>>, <<preset.row, preset.col + 1>>,
                    <<preset.row + 1, preset.col>>, <<preset.row + 1, preset.col + 1>> }

\* a block in the bottom right corner after two applications of the rule
C16_Witness ==
    /\ preset.name = "block"
    /\ preset.row = height - 2
    /\ preset.col = BOARD_WIDTH - 2
    /\ generation = 2
    /\ Cardinality(LiveCells(board)) = 4

\* C17: an ALIVE corner cell whose neighbours on the board are all DEAD is
\* DEAD after one next_generation, whatever the opposite edges hold
C17_CornerDies ==
    [][(/\ preset.name = "corner"
        /\ op.name = "set_cells"
        /\ op'.name = "next_generation")
         => /\ exc' = NoException
            /\ board[preset.row][preset.col] = ALIVE
            /\ LiveAround(board, height, preset.row, preset.col) = 0
            /\ board'[preset.row][preset.col] = DEAD]_vars

\* the top left corner DEAD after one application of the rule to a board
\* that held it ALIVE with five ALIVE cells on the opposite edges
C17_Witness ==
    /\ preset.name = "corner"
    /\ preset.row = 0
    /\ preset.col = 0
    /\ Len(preset.cells) = 6
    /\ op.name = "next_generation"
    /\ before = 0
    /\ board[0][0] = DEAD

\* the row the content drawn in row preset.row is in: each tick made since
\* moved it down by one
ContentRow == preset.row + generation

\* C18, as the text has it: the call that returns the content drawn in row
\* r of a board of height h, as it stands in the bottom row, is one of the
\* first h - 1 calls
C18_Original ==
    [][(/\ preset.name = "row"
        /\ op'.name = "get_bottom_row_and_advance"
        /\ ContentRow = height - 1)
         => generation' <= height - 1]_vars

\* C18, amended: a row drawn in row r of a blank board of height h is moved
\* down one row by every get_bottom_row_and_advance (after the call the row
\* below is the rule applied to the scrolled board, in which it holds the
\* content), so that it is in the bottom row after h - 1 - r calls, and the
\* call that returns its columns as they then stand is call number h - r;
\* drawn in the bottom row, it is returned as drawn by the first call
C18_ScrollDistance ==
    [][(/\ preset.name = "row"
        /\ op'.name = "get_bottom_row_and_advance")
         => /\ exc' = NoException
            /\ ContentRow < height - 1
                 => /\ Scrolled(board, height, generation)[ContentRow + 1]
                          = board[ContentRow]
                    /\ \A c \in 0..(BOARD_WIDTH - 1) :
                           board'[ContentRow + 1][c]
                             = RuleCell(Scrolled(board, height, generation),
                                        height, ContentRow + 1, c)
            /\ ContentRow = height - 1
                 => /\ generation' = height - preset.row
                    /\ IsAscending(ret')
                    /\ Elements(ret') = LiveColumns(board[height - 1])
            /\ (ContentRow = height - 1 /\ generation = 0)
                 => Elements(ret')
                      = { preset.cells[i][2] : i \in 1..Len(preset.cells) }]_vars

\* the call number h on a board of two rows or more that returned what the
\* row drawn in row 0 had become
C18_Witness ==
    /\ preset.name = "row"
    /\ preset.row = 0
    /\ height >= 2
    /\ op.name = "get_bottom_row_and_advance"
    /\ generation = height
    /\ Len(ret) >= 1

\* the characters of a pattern that stand for a live cell
AliveChars == {"O", "X", "*"}

\* the cell (r, c) of the board a pattern describes on h rows of 88 columns
PatternValue(pattern, h, r, c) ==
    IF /\ r < Min(Len(pattern), h)
       /\ c < Min(Len(pattern[r + 1]), BOARD_WIDTH)
       /\ pattern[r + 1][c + 1] \in AliveChars
    THEN ALIVE ELSE DEAD

\* C19: from_pattern(pattern) does not raise, keeps the h rows of 88 cells
\* and leaves cell (r, c) ALIVE iff r < min(len(pattern), h), c <
\* min(len(pattern[r]), 88) and pattern[r][c] is 'O', 'X' or '*', and DEAD
\* otherwise, whatever the board held before
C19_FromPattern ==
    [][op'.name = "from_pattern"
         => /\ exc' = NoException
            /\ height' = height
            /\ width' = BOARD_WIDTH
            /\ IsBoard(board', height)
            /\ \A r \in 0..(height - 1), c \in 0..(BOARD_WIDTH - 1) :
                   board'[r][c] = PatternValue(op'.args[1], height, r, c)]_vars

\* a from_pattern, called second on a board, whose pattern has a row of
\* more than 88 characters and left the last column ALIVE
C19_Witness ==
    /\ op.name = "from_pattern"
    /\ calls = 2
    /\ Len(op.args[1][1]) > BOARD_WIDTH
    /\ board[0][BOARD_WIDTH - 1] = ALIVE

\* C20: new_random_board(width=w, height=h, alive_probability=p) leaves,
\* for every w, a board of h rows of 88 cells with width 88, height h and
\* the counter at 0, all DEAD for p = 0 and all ALIVE for p = 1; called
\* without a height it leaves the height the board was constructed with
C20_NewRandomBoard ==
    [][op'.name = "new_random_board"
         => LET h == IF op'.args[2] = <<>> THEN ctor[2] ELSE op'.args[2][1]
            IN  /\ exc' = NoException
                /\ width' = BOARD_WIDTH
                /\ height' = h
                /\ PyLen(board') = h
                /\ IsBoard(board', h)
                /\ generation' = 0
                /\ \A r \in DOMAIN board' : \A c \in DOMAIN board'[r] :
                       /\ op'.args[3] = 0 => board'[r][c] = DEAD
                       /\ op'.args[3] = 10 => board'[r][c] = ALIVE]_vars

SerialCall(self, name) ==
    IF name = "next_generation" THEN next_generation(self)
    ELSE get_bottom_row_and_advance(self)

\* the threads first and second made their calls one after the other, in
\* this order: the keys each harvested, the board and the counter
IsSerialOrder(first, second) ==
    LET a == SerialCall(start, threads[first].name)
        b == SerialCall(a.self, threads[second].name)
    IN  /\ board = b.self.board
        /\ generation = b.self.generation
        /\ threads[first].name = "get_bottom_row_and_advance"
             => threads[first].bottom_row_keys = a.ret
        /\ threads[second].name = "get_bottom_row_and_advance"
             => threads[second].bottom_row_keys = b.ret

\* C22: when two threads have made their calls of next_generation or
\* get_bottom_row_and_advance on the same object with no lock, the keys
\* harvested, the board and the counter are those of the two calls made
\* one after the other in some order
C22_Serializable ==
    (\A t \in Threads : threads[t].pc = "done")
        => \/ IsSerialOrder(1, 2)
           \/ IsSerialOrder(2, 1)

\* C23: get_board returns the height rows of 88 cells of the board as it is;
\* what it returned is not changed by a later set_cell, add_random_top_row,
\* next_generation or get_bottom_row_and_advance, and a write into the
\* returned rows does not change the board
C23_BoardSnapshot ==
    [][/\ op'.name = "get_board"
            => /\ IsBoard(ret', height)
               /\ ret' = board
               /\ board' = board
       /\ (/\ snapshot.taken
           /\ op'.name \in {"set_cell", "add_random_top_row", "next_generation",
                            "get_bottom_row_and_advance"})
            => snapshot'.rows = snapshot.rows
       /\ op'.name = "write_returned_row" => board' = board]_vars

\* the audio-engine method a play_* method of the Piano forwards to
EngineMethod(name) ==
    CASE name = "play_keys" -> "play_piano_keys"
      [] name = "play_chord" -> "play_chord"
      [] name = "play_sequence" -> "play_note_sequence"

\* C24: over set_mute, play_keys, play_chord and play_sequence calls,
\* get_mute_status returns the argument of the last set_mute (False before
\* any); a play_* call made while not muted makes one call of its
\* audio-engine method with the same arguments, and one made while muted
\* makes none
C24_MuteGatesEngine ==
    [][/\ piano'.is_muted = piano'.mute_arg
       /\ op'.name = "set_mute" => piano'.mute_arg = op'.args[1]
       /\ op'.name # "set_mute" => piano'.mute_arg = piano.mute_arg
       /\ op'.name = "get_mute_status" => ret' = piano.mute_arg
       /\ op'.name \in {"set_mute", "get_mute_status"} => piano'.log = piano.log
       /\ op'.name \in {"play_keys", "play_chord", "play_sequence"}
            => piano'.log =
                 IF piano.mute_arg THEN piano.log
                 ELSE Append(piano.log, [method |-> EngineMethod(op'.name),
                                         args |-> op'.args])]_vars

\* a play_chord made after set_mute(True) that left the engine's calls as
\* they were, one of them made before the muting
C24_Witness ==
    /\ op.name = "play_chord"
    /\ piano.mute_arg
    /\ calls = MaxPianoCalls
    /\ Len(piano.log) = 1

\* the number of turns a call of _play_limited or play is to make: count,
\* or the generations the Piano was built with
TurnsAsked == IF op'.name = "_play_limited" THEN op'.args[1]
              ELSE piano.generations[1]

\* C25: _play_limited(count), and play on a Piano built with generations =
\* count, call _play_generation count times and return; the counter of the
\* game is count higher afterwards
C25_LimitedPlay ==
    [][(\/ op'.name = "_play_limited"
        \/ op'.name = "play" /\ piano.generations # <<>>)
         => /\ exc' = NoException
            /\ piano'.played = piano.played + TurnsAsked
            /\ generation' = generation + TurnsAsked]_vars

\* a _play_limited(2) that has returned with the two generations played
C25_Witness ==
    /\ op.name = "_play_limited"
    /\ op.args[1] = 2
    /\ piano.played >= 2
    /\ generation >= 2

\* C27: _play_generation ticks the game once; the audio engine gets one
\* call of play_piano_keys with the keys that tick harvested if the Piano
\* is not muted and the keys are not empty, and no call otherwise
C27_GenerationPlaysHarvest ==
    [][op'.name = "_play_generation"
         => /\ exc' = NoException
            /\ generation' = generation + 1
            /\ IsRuleOf(board', Scrolled(board, height, generation), height)
            /\ IF ~piano.is_muted /\ LiveColumns(board[height - 1]) # {}
               THEN /\ Len(piano'.log) = Len(piano.log) + 1
                    /\ SubSeq(piano'.log, 1, Len(piano.log)) = piano.log
                    /\ LET call == piano'.log[Len(piano'.log)]
                       IN  /\ call.method = "play_piano_keys"
                           /\ Len(call.args) = 1
                           /\ IsAscending(call.args[1])
                           /\ Elements(call.args[1])
                                = LiveColumns(board[height - 1])
               ELSE piano'.log = piano.log]_vars

\* a _play_generation on a Piano not muted that sent the two keys set in
\* the bottom row to the engine
C27_Witness ==
    /\ op.name = "_play_generation"
    /\ ~piano.is_muted
    /\ Len(piano.log) = 1
    /\ piano.log[1].args = << <<1, 3>> >>

\* C28: the game a _play_generation leaves is the game it leaves on a
\* Piano that differs in is_muted only, and set_mute leaves the game as it
\* is: muted or not, two Pianos with games in the same state have games in
\* the same state after the same number of _play_generation calls
C28_MuteKeepsGame ==
    [][/\ op'.name = "_play_generation"
            => LET other == Piano_play_generation(
                                [piano EXCEPT !.is_muted = ~piano.is_muted], Self)
               IN  /\ board' = other.self.board
                   /\ generation' = other.self.generation
                   /\ height' = other.self.height
                   /\ exc' = other.exc
       /\ op'.name = "set_mute"
            => /\ board' = board
               /\ generation' = generation
               /\ height' = height]_vars

\* a _play_generation on a muted Piano whose game had keys to play: the
\* engine got nothing and the game went on
C28_Witness ==
    /\ op.name = "_play_generation"
    /\ piano.is_muted
    /\ preset.name = "keys"
    /\ generation = 1
    /\ piano.log = <<>>

\* the object with the cells of its top row DEAD
WithDeadTopRow(self) ==
    [self EXCEPT !.board[0] = [c \in DOMAIN self.board[0] |-> DEAD]]

\* C26, as the text has it: the top row add_random_top_row leaves is the
\* one it leaves on a board of the same counter whose top row was DEAD, so
\* the cells the generator marks DEAD are DEAD whatever the row held
C26_Original ==
    [][op'.name = "add_random_top_row"
         => /\ board'[0] = add_random_top_row(WithDeadTopRow(Self)).self.board[0]
            /\ board'[0] = GeneratedRow(generation)]_vars

\* C26, amended: add_random_top_row leaves the counter and the rows below
\* the top one as they were and leaves alive in the top row the cells that
\* were alive and those of the row generated from the counter; on a top
\* row of DEAD cells it leaves the generated row, which depends on the
\* counter only
C26_RowOfCounter ==
    [][op'.name = "add_random_top_row"
         => /\ exc' = NoException
            /\ generation' = generation
            /\ \A r \in 1..(height - 1) : board'[r] = board[r]
            /\ add_random_top_row(WithDeadTopRow(Self)).self.board[0]
                  = GeneratedRow(generation)
            /\ \A c \in 0..(BOARD_WIDTH - 1) :
                   board'[0][c] = IF board[0][c] = ALIVE THEN ALIVE
                                  ELSE GeneratedRow(generation)[c]]_vars

\* an add_random_top_row called outside a tick that left alive both a
\* cell the row generated from the counter has DEAD and one it has ALIVE
C26_Witness ==
    /\ op.name = "add_random_top_row"
    /\ calls = 2
    /\ \E c \in 0..(BOARD_WIDTH - 1) :
           board[0][c] = ALIVE /\ GeneratedRow(generation)[c] = ALIVE
    /\ \E c \in 0..(BOARD_WIDTH - 1) :
           board[0][c] = ALIVE /\ GeneratedRow(generation)[c] = DEAD

\* bottom rows to put in the place of the one a board has: all DEAD, all
\* ALIVE, and some cells ALIVE
OtherBottomRows ==
    { [c \in 0..(BOARD_WIDTH - 1) |-> DEAD],
      [c \in 0..(BOARD_WIDTH - 1) |-> ALIVE],
      GeneratedRow(MaxGen) }

\* the object with cells as its bottom row
WithBottomRow(self, cells) == [self EXCEPT !.board[self.height - 1] = cells]

\* C29: a board that differs from this one in the cells of its bottom row
\* only is left by one get_bottom_row_and_advance with the same board and
\* the same counter as this one, also when the height is 1
C29_BottomRowLeaves ==
    [][op'.name = "get_bottom_row_and_advance"
         => \A cells \in OtherBottomRows :
               LET other == get_bottom_row_and_advance(WithBottomRow(Self, cells))
               IN  /\ other.exc = exc'
                   /\ other.self.board = board'
                   /\ other.self.generation = generation'
                   /\ other.self.height = height']_vars

\* a get_bottom_row_and_advance on a board of one row that returned keys
C29_Witness ==
    /\ op.name = "get_bottom_row_and_advance"
    /\ height = 1
    /\ exc = NoException
    /\ Len(ret) >= 1

\* the value of a setting when the environment goes before the command
\* line and the command line before the file
ByPrecedence(environ, arg, file, default) ==
    IF environ # <<>> THEN environ[1]
    ELSE IF arg # <<>> THEN arg[1]
    ELSE IF file # <<>> THEN file[1]
    ELSE default

\* what the file that load_config loads gives for a setting: the file named
\* with --config, or else the one at the default location
FromFile(args, files, value) ==
    IF args.config \/ files.at_default THEN value ELSE <<>>

\* C30: each setting of the Config that load_config returns is the value
\* of the environment variable if set, else of the command-line argument
\* if given, else of the file loaded, whether the file was named with
\* --config or found at the default location
C30_ConfigPrecedence ==
    op.name = "load_config"
        => LET args == op.args[1]
               environ == op.args[2]
               files == op.args[3]
           IN  /\ ret.step_delay_ms
                    = ByPrecedence(environ.step_delay, args.step_delay,
                                   FromFile(args, files, files.content.step_delay),
                                   Config_init.step_delay_ms)
               /\ ret.board_height
                    = ByPrecedence(environ.board_height, args.board_height,
                                   FromFile(args, files, files.content.board_height),
                                   Config_init.board_height)

====
